---- MODULE Spec2Model ----
(***************************************************************************)
(* Model of the protocol registry of the ESPHome remote component          *)
(* (homeassistant/components/esphome/protocols.py): the validation         *)
(* helpers, the catalog loader, the schema compiler, the command parser    *)
(* and the process-wide cache PROTO_CACHE.                                 *)
(*                                                                         *)
(* Text is a sequence of one-character strings, so that lower(), strip(),  *)
(* int(text, base) and the tokenizer are computed and not assumed.         *)
(* Python integers are unbounded: an integer is a sign and a magnitude     *)
(* written as decimal digits, most significant first, zero being <<>>.     *)
(***************************************************************************)
EXTENDS Integers, Sequences, FiniteSets, TLC

VARIABLES PROTO_CACHE, result, pending

vars == <<PROTO_CACHE, result, pending>>

(***************************************************************************)
(* Bounds of the model                                                     *)
(***************************************************************************)
\* longest text handed to quoted_split by the tokenizer specification
MaxLen == 4
\* integers tried around each declared bound of a type: bound-MaxOff .. bound+MaxOff
MaxOff == 3
\* surplus positional values tried beyond the declared argument count
MaxExtra == 1

(***************************************************************************)
(* Characters and text                                                     *)
(***************************************************************************)
DQ == "\""
SQ == "'"
BSL == "\\"
SPC == " "

Whitespace == {SPC, "\t"}
Quotes == {DQ, SQ}

Digits == <<"0", "1", "2", "3", "4", "5", "6", "7", "8", "9">>
HexDigits == Digits \o <<"a", "b", "c", "d", "e", "f">>

LowerLetters == <<"a", "b", "c", "d", "e", "f", "g", "h", "i", "j", "k", "l", "m",
                  "n", "o", "p", "q", "r", "s", "t", "u", "v", "w", "x", "y", "z">>
UpperLetters == <<"A", "B", "C", "D", "E", "F", "G", "H", "I", "J", "K", "L", "M",
                  "N", "O", "P", "Q", "R", "S", "T", "U", "V", "W", "X", "Y", "Z">>

IsLower(c) == \E i \in 1..26 : LowerLetters[i] = c
IsUpper(c) == \E i \in 1..26 : UpperLetters[i] = c
IsDigit(c) == \E i \in 1..10 : Digits[i] = c

\* str.lower() and str.upper() on one character
LowerChar(c) == IF IsUpper(c) THEN LowerLetters[CHOOSE i \in 1..26 : UpperLetters[i] = c] ELSE c
UpperChar(c) == IF IsLower(c) THEN UpperLetters[CHOOSE i \in 1..26 : LowerLetters[i] = c] ELSE c

\* str.lower()
Lower(s) == [i \in 1..Len(s) |-> LowerChar(s[i])]

\* str.upper(), used to build mixed-case inputs
Upper(s) == [i \in 1..Len(s) |-> UpperChar(s[i])]

\* text[from:] with a 1-based first index
Drop(s, from) == IF from > Len(s) THEN <<>> ELSE SubSeq(s, from, Len(s))

\* str.strip()
Strip(s) ==
    LET keep == {i \in 1..Len(s) : s[i] \notin Whitespace}
    IN  IF keep = {} THEN <<>>
        ELSE SubSeq(s, CHOOSE i \in keep : \A j \in keep : i <= j,
                       CHOOSE i \in keep : \A j \in keep : j <= i)

\* str.startswith
StartsWith(s, p) == Len(s) >= Len(p) /\ SubSeq(s, 1, Len(p)) = p

RECURSIVE Join(_, _)
\* delimiter.join(parts)
Join(parts, d) ==
    IF parts = <<>> THEN <<>>
    ELSE IF Len(parts) = 1 THEN parts[1]
    ELSE parts[1] \o <<d>> \o Join(Tail(parts), d)

(***************************************************************************)
(* quoted_split                                                            *)
(***************************************************************************)
\* \s* : first position at or after p that holds no whitespace
RECURSIVE SkipWs(_, _)
SkipWs(t, p) == IF p <= Len(t) /\ t[p] \in Whitespace THEN SkipWs(t, p + 1) ELSE p

\* (?:(?!\1).|\\\1)*(?<!\\)\1 : the quote that closes the run opened at q,
\* the first later occurrence of the same quote not preceded by a backslash;
\* 0 when the run is never closed
CloseQuote(t, q) ==
    LET cands == {j \in (q + 1)..Len(t) : t[j] = t[q] /\ t[j - 1] # BSL}
    IN  IF cands = {} THEN 0 ELSE CHOOSE j \in cands : \A k \in cands : j <= k

\* MatchEnd without the quoted alternative of re_first: every delimiter splits
RECURSIVE MatchEnd_unquoted(_, _, _)
MatchEnd_unquoted(t, p, delimiter) ==
    IF p > Len(t) \/ t[p] = delimiter THEN p ELSE MatchEnd_unquoted(t, p + 1, delimiter)

\* end of the match of re_first begun at p: each round takes a whole quoted
\* run (with the whitespace around it) or one character that is not the
\* delimiter; the result is the position of the first unmatched character
RECURSIVE MatchEnd(_, _, _)
MatchEnd(t, p, delimiter) ==
    IF p > Len(t) THEN p
    ELSE LET q == SkipWs(t, p)
             c == IF q <= Len(t) /\ t[q] \in Quotes THEN CloseQuote(t, q) ELSE 0
         IN  IF c # 0 THEN MatchEnd(t, SkipWs(t, c + 1), delimiter)
             ELSE IF t[p] = delimiter THEN p
             ELSE MatchEnd(t, p + 1, delimiter)

RECURSIVE quoted_split(_, _)
quoted_split(text, delimiter) ==
    IF Len(text) = 0 THEN <<>>
    ELSE LET e == MatchEnd(text, 1, delimiter)
         IN  <<Strip(SubSeq(text, 1, e - 1))>> \o quoted_split(Drop(text, e + 1), delimiter)

(***************************************************************************)
(* Python values and unbounded integers                                    *)
(***************************************************************************)
IntV(neg, mag) == [t |-> "int", neg |-> neg, mag |-> mag]
FloatV(neg, mag, frac) == [t |-> "float", neg |-> neg, mag |-> mag, frac |-> frac]
StrV(s) == [t |-> "str", s |-> s]
ListV(items) == [t |-> "list", items |-> items]
BoolV(b) == [t |-> "bool", b |-> b]
NoneV == [t |-> "none"]
\* a function or validator object that ended up where a value was expected
CallableV(of) == [t |-> "callable", of |-> of]

\* outcome of a call: the value returned or the exception raised
Ok(v) == [ok |-> TRUE, value |-> v]
Raise(exc, path, msg) == [ok |-> FALSE, exc |-> exc, path |-> path, msg |-> msg]
Invalid(msg) == Raise("Invalid", <<>>, msg)

\* an element of an error path: a mapping key or a sequence index
Key(name) == [k |-> "key", name |-> name]
Idx(i) == [k |-> "idx", i |-> i]

\* Invalid.prepend(path)
Prepend(path, r) == IF r.ok THEN r ELSE [r EXCEPT !.path = path \o r.path]

RECURSIVE StripZeros(_)
StripZeros(d) == IF d # <<>> /\ Head(d) = 0 THEN StripZeros(Tail(d)) ELSE d

Reverse(s) == [i \in 1..Len(s) |-> s[Len(s) + 1 - i]]

RECURSIVE LexLess(_, _)
\* lexicographic order on digit sequences
LexLess(a, b) ==
    IF b = <<>> THEN FALSE
    ELSE IF a = <<>> THEN TRUE
    ELSE IF Head(a) # Head(b) THEN Head(a) < Head(b)
    ELSE LexLess(Tail(a), Tail(b))

\* a < b on magnitudes
MagLess(a, b) == IF Len(a) # Len(b) THEN Len(a) < Len(b) ELSE LexLess(a, b)

\* a magnitude as limbs of four decimal digits, least significant first,
\* and back
ToLimbs(mag) ==
    LET digit(k) == IF k < Len(mag) THEN mag[Len(mag) - k] ELSE 0
    IN  [j \in 1..((Len(mag) + 3) \div 4) |->
            digit(4 * j - 4) + 10 * digit(4 * j - 3) + 100 * digit(4 * j - 2) + 1000 * digit(4 * j - 1)]

FromLimbs(limbs) ==
    LET n == Len(limbs)
        limb(i) == limbs[n - ((i - 1) \div 4)]
    IN  StripZeros([i \in 1..(4 * n) |->
            CASE (i - 1) % 4 = 0 -> limb(i) \div 1000
              [] (i - 1) % 4 = 1 -> (limb(i) \div 100) % 10
              [] (i - 1) % 4 = 2 -> (limb(i) \div 10) % 10
              [] (i - 1) % 4 = 3 -> limb(i) % 10])

RECURSIVE MulAddLimbs(_, _, _)
\* limbs * m + c, for m up to 4096
MulAddLimbs(limbs, m, c) ==
    IF limbs = <<>>
    THEN IF c = 0 THEN <<>> ELSE <<c % 10000>> \o MulAddLimbs(<<>>, m, c \div 10000)
    ELSE LET x == Head(limbs) * m + c
         IN  <<x % 10000>> \o MulAddLimbs(Tail(limbs), m, x \div 10000)

\* mag * m + c
MulAdd(mag, m, c) == FromLimbs(MulAddLimbs(ToLimbs(mag), m, c))

RECURSIVE SubLE(_, _)
\* le - c on least-significant-first digits, for le >= c
SubLE(le, c) ==
    IF le = <<>> THEN <<>>
    ELSE LET x == Head(le) - (c % 10)
         IN  IF x >= 0 THEN <<x>> \o SubLE(Tail(le), c \div 10)
             ELSE <<x + 10>> \o SubLE(Tail(le), (c \div 10) + 1)

\* magnitude of a small natural number
Mag(n) == MulAdd(<<>>, 1, n)

\* mag - c, for mag >= c
MagSub(mag, c) == StripZeros(Reverse(SubLE(Reverse(mag), c)))

RECURSIVE ToNat(_)
\* the natural number a small magnitude stands for
ToNat(mag) == IF mag = <<>> THEN 0 ELSE 10 * ToNat(SubSeq(mag, 1, Len(mag) - 1)) + mag[Len(mag)]

\* the integer n
I(n) == IF n < 0 THEN IntV(TRUE, Mag(-n)) ELSE IntV(FALSE, Mag(n))

\* the integer x + d, for a small d of either sign
IntAdd(x, d) ==
    IF d = 0 THEN x
    ELSE IF x.neg = (d < 0) THEN IntV(x.neg, MulAdd(x.mag, 1, IF d < 0 THEN -d ELSE d))
    ELSE LET a == IF d < 0 THEN -d ELSE d
         IN  IF MagLess(x.mag, Mag(a))
             THEN IntV(d < 0, Mag(a - ToNat(x.mag)))
             ELSE LET m == MagSub(x.mag, a) IN IntV(x.neg /\ m # <<>>, m)

\* the numeric value of an int, float or bool as (negative, whole part, fraction)
IsNumber(v) == v.t \in {"int", "float", "bool"}
NumNeg(v) == IF v.t = "bool" THEN FALSE ELSE v.neg
NumMag(v) == IF v.t = "bool" THEN (IF v.b THEN <<1>> ELSE <<>>) ELSE v.mag
NumFrac(v) == IF v.t = "float" THEN v.frac ELSE <<>>
NumIsZero(v) == NumMag(v) = <<>> /\ NumFrac(v) = <<>>

\* |x| < |y|
AbsLess(x, y) ==
    IF NumMag(x) # NumMag(y) THEN MagLess(NumMag(x), NumMag(y))
    ELSE LexLess(NumFrac(x), NumFrac(y))

\* x < y
NumLess(x, y) ==
    LET xn == NumNeg(x) /\ ~NumIsZero(x)
        yn == NumNeg(y) /\ ~NumIsZero(y)
    IN  IF xn # yn THEN xn
        ELSE IF xn THEN AbsLess(y, x)
        ELSE AbsLess(x, y)

NumEq(x, y) == ~NumLess(x, y) /\ ~NumLess(y, x)

(***************************************************************************)
(* Validation helpers                                                      *)
(***************************************************************************)
DigitVal(c) == CHOOSE d \in 0..15 : HexDigits[d + 1] = c

\* decimal digits of a magnitude as text
MagText(mag) == IF mag = <<>> THEN <<"0">> ELSE [i \in 1..Len(mag) |-> Digits[mag[i] + 1]]

RECURSIVE ReprItems(_)
\* str(value), with repr() for the elements of a list
PyStr(v) ==
    CASE v.t = "str" -> v.s
      [] v.t = "int" -> (IF v.neg THEN <<"-">> ELSE <<>>) \o MagText(v.mag)
      [] v.t = "float" -> (IF v.neg THEN <<"-">> ELSE <<>>) \o MagText(v.mag) \o <<".">>
                          \o (IF v.frac = <<>> THEN <<"0">> ELSE [i \in 1..Len(v.frac) |-> Digits[v.frac[i] + 1]])
      [] v.t = "bool" -> IF v.b THEN <<"T", "r", "u", "e">> ELSE <<"F", "a", "l", "s", "e">>
      [] v.t = "none" -> <<"N", "o", "n", "e">>
      [] v.t = "list" -> <<"[">> \o ReprItems(v.items) \o <<"]">>
      [] OTHER -> <<"<", "f", "u", "n", "c", "t", "i", "o", "n", ">">>

ReprItems(items) ==
    IF items = <<>> THEN <<>>
    ELSE LET h == Head(items)
             r == IF h.t = "str" THEN <<SQ>> \o h.s \o <<SQ>> ELSE PyStr(h)
         IN  IF Len(items) = 1 THEN r ELSE r \o <<",", SPC>> \o ReprItems(Tail(items))

\* string(): strings pass with one layer of border quotes removed, other
\* scalars are stringified, dict, list, bool and None are refused
string(value) ==
    IF value.t \in {"dict", "list"} THEN Invalid("string value cannot be dictionary or list.")
    ELSE IF value.t = "bool" THEN Invalid("Auto-converted this value to boolean")
    ELSE IF value.t = "str"
    THEN LET s == value.s
             q == SkipWs(s, 1)
             c == IF q <= Len(s) /\ s[q] \in Quotes THEN CloseQuote(s, q) ELSE 0
         IN  IF c # 0 /\ SkipWs(s, c + 1) > Len(s)
             THEN Ok(StrV(SubSeq(s, q + 1, c - 1)))
             ELSE Ok(value)
    ELSE IF value.t # "none" THEN Ok(StrV(PyStr(value)))
    ELSE Invalid("string value is None")

string_strict(value) ==
    IF value.t = "str" THEN Ok(value) ELSE Invalid("Must be string")

\* int(text, base): surrounding whitespace, one optional sign, the 0x prefix
\* when the base is 16, then digits of the base with single underscores
\* between them; <<>> stands for ValueError
ParseInt(text, base) ==
    LET ds == IF base = 16 THEN HexDigits ELSE Digits
        isDigit(c) == \E d \in 1..Len(ds) : ds[d] = c
        \* base 10: the digits are the magnitude; base 16: three digits at a
        \* time, most significant first
        magnitude(digs) ==
            LET val(k) == IF k < 1 THEN 0 ELSE DigitVal(digs[k])
                lead == Len(digs) % 3
                chunk(n) == LET e == lead + 3 * (n - 1) IN 256 * val(e - 2) + 16 * val(e - 1) + val(e)
                chunks == (IF lead = 0 THEN 0 ELSE 1) + (Len(digs) \div 3)
                H[n \in 0..chunks] ==
                    IF n = 0 THEN <<>>
                    ELSE MulAdd(H[n - 1], 4096, chunk(IF lead = 0 THEN n + 1 ELSE n))
            IN  IF base = 16 THEN H[chunks]
                ELSE StripZeros([i \in 1..Len(digs) |-> DigitVal(digs[i])])
        number(neg, mag) == <<IntV(neg /\ mag # <<>>, mag)>>
        wellFormed(prefixed, body) ==
            /\ body # <<>>
            /\ \A i \in 1..Len(body) : isDigit(body[i]) \/ body[i] = "_"
            /\ body[Len(body)] # "_"
            /\ (body[1] = "_" => prefixed)
            /\ \A i \in 1..(Len(body) - 1) : ~(body[i] = "_" /\ body[i + 1] = "_")
        digits(neg, prefixed, body) ==
            IF wellFormed(prefixed, body) THEN number(neg, magnitude(SelectSeq(body, isDigit)))
            ELSE <<>>
        prefix(neg, prefixed, s1) == digits(neg, prefixed, IF prefixed THEN Drop(s1, 3) ELSE s1)
        unsigned(neg, s1) == prefix(neg, base = 16 /\ StartsWith(s1, <<"0", "x">>), s1)
        sign(s0) == unsigned(s0 # <<>> /\ s0[1] = "-",
                             IF s0 # <<>> /\ s0[1] \in {"+", "-"} THEN Tail(s0) ELSE s0)
    IN  sign(Strip(text))

\* integer(): ints pass, floats without fractional part are truncated,
\* strings are parsed in base 16 after a 0x prefix and in base 10 otherwise
integer(value) ==
    LET done(parsed) ==
            IF parsed = <<>> THEN Invalid("Expected integer, but cannot parse as an integer")
            ELSE Ok(parsed[1])
        parse(low) == done(ParseInt(low, IF StartsWith(low, <<"0", "x">>) THEN 16 ELSE 10))
        text(st) == IF ~st.ok THEN st ELSE parse(Lower(st.value.s))
    IN  IF value.t \in {"int", "bool"} THEN Ok(value)
        ELSE IF value.t = "float"
        THEN IF value.frac = <<>>
             THEN Ok(IntV(value.neg /\ value.mag # <<>>, value.mag))
             ELSE Invalid("This option only accepts integers with no fractional part")
        ELSE text(string_strict(value))

\* Range with the upper bound left out of the range
Range_strict(min, max, min_included, max_included, v) ==
    IF ~IsNumber(v) THEN Invalid("invalid value or type (must have a partial ordering)")
    ELSE IF min.t # "none" /\ NumLess(v, min) THEN Invalid("value must be at least min")
    ELSE IF max.t # "none" /\ ~NumLess(v, max) THEN Invalid("value must be at most max")
    ELSE Ok(v)

\* vol.Range(min, max, min_included, max_included); NoneV is an absent bound
Range(min, max, min_included, max_included, v) ==
    IF ~IsNumber(v) THEN Invalid("invalid value or type (must have a partial ordering)")
    ELSE IF min.t # "none" /\ (IF min_included THEN NumLess(v, min) ELSE ~NumLess(min, v))
    THEN Invalid("value must be at least min")
    ELSE IF max.t # "none" /\ (IF max_included THEN NumLess(max, v) ELSE ~NumLess(v, max))
    THEN Invalid("value must be at most max")
    ELSE Ok(v)

\* integer_range(min, max): vol.All(integer, vol.Range(...))
integer_range(min, max, v) ==
    LET ranged(i) == IF ~i.ok THEN i ELSE Range(min, max, TRUE, TRUE, i.value)
    IN  ranged(integer(v))

\* the validator that accepts everything
valid(value) == Ok(value)

coerce_list(value) ==
    IF value.t = "list" THEN Ok(value)
    ELSE IF value.t = "none" THEN Ok(ListV(<<>>))
    ELSE IF value.t = "str"
    THEN LET toks == quoted_split(value.s, ",")
         IN  Ok(ListV([i \in 1..Len(toks) |-> StrV(toks[i])]))
    ELSE Ok(ListV(<<value>>))

\* alternating_signs(): the error path is the 0-based index of the second
\* element of the first pair of equal signs
alternating_signs(value) ==
    IF value.t # "list" THEN Raise("AssertionError", <<>>, "")
    ELSE IF \E i \in 1..Len(value.items) : ~IsNumber(value.items[i])
    THEN Raise("TypeError", <<>>, "'<' not supported")
    ELSE LET neg(i) == NumLess(value.items[i], I(0))
             bad == {i \in 2..Len(value.items) : neg(i) = neg(i - 1)}
         IN  IF bad = {} THEN Ok(value)
             ELSE Raise("Invalid", <<Idx((CHOOSE i \in bad : \A j \in bad : i <= j) - 1)>>,
                        "Values must alternate between being positive and negative")

binary_string(value) ==
    LET binary(st) ==
            IF ~st.ok THEN st
            ELSE IF \E i \in 1..Len(st.value.s) : st.value.s[i] \notin {"0", "1"}
            THEN Invalid("String must be all binary digits")
            ELSE st
    IN  binary(string(value))

\* float(value) of vol.Coerce(float), for numbers and for plain decimal text
\* (optional sign, digits, optional point and digits)
CoerceFloat(value) ==
    LET isDigit(c) == \E d \in 1..10 : Digits[d] = c
        parts(neg, dots, whole, frac) ==
            IF /\ Cardinality(dots) <= 1
               /\ Len(whole) + Len(frac) > 0
               /\ \A i \in 1..Len(whole) : isDigit(whole[i])
               /\ \A i \in 1..Len(frac) : isDigit(frac[i])
            THEN Ok(FloatV(neg,
                           StripZeros([i \in 1..Len(whole) |-> DigitVal(whole[i])]),
                           Reverse(StripZeros(Reverse([i \in 1..Len(frac) |-> DigitVal(frac[i])])))))
            ELSE Invalid("expected float")
        point(neg, s1, dots, dot) == parts(neg, dots, SubSeq(s1, 1, dot - 1), Drop(s1, dot + 1))
        split(neg, s1, dots) ==
            point(neg, s1, dots, IF dots = {} THEN Len(s1) + 1 ELSE CHOOSE i \in dots : TRUE)
        unsigned(neg, s1) == split(neg, s1, {i \in 1..Len(s1) : s1[i] = "."})
        sign(s0) == unsigned(s0 # <<>> /\ s0[1] = "-",
                             IF s0 # <<>> /\ s0[1] \in {"+", "-"} THEN Tail(s0) ELSE s0)
    IN  IF value.t \in {"int", "bool"} THEN Ok(FloatV(NumNeg(value), NumMag(value), <<>>))
        ELSE IF value.t = "float" THEN Ok(value)
        ELSE IF value.t # "str" THEN Invalid("expected float")
        ELSE sign(Strip(value.s))

(***************************************************************************)
(* CPP_TYPES                                                               *)
(***************************************************************************)
IntTypes == {"int", "int32_t", "uint", "uint8_t", "uint16_t", "uint32_t", "uint64_t"}
ScalarTypes == IntTypes \cup {"float", "bool", "string"}

\* declared inclusive bounds of the integer types
IntMin(type) ==
    IF type \in {"int", "int32_t"} THEN IntV(TRUE, <<2, 1, 4, 7, 4, 8, 3, 6, 4, 8>>)
    ELSE I(0)

IntMax(type) ==
    CASE type \in {"int", "int32_t"} -> IntV(FALSE, <<2, 1, 4, 7, 4, 8, 3, 6, 4, 7>>)
      [] type \in {"uint", "uint32_t"} -> IntV(FALSE, <<4, 2, 9, 4, 9, 6, 7, 2, 9, 5>>)
      [] type = "uint8_t" -> I(255)
      [] type = "uint16_t" -> I(65535)
      [] type = "uint64_t" ->
            IntV(FALSE, <<1, 8, 4, 4, 6, 7, 4, 4, 0, 7, 3, 7, 0, 9, 5, 5, 1, 6, 1, 5>>)

\* CPP_TYPES[type](value); "bool" is vol.Boolean itself, which returns its
\* inner validator whatever it is called with
CPP_TYPES(type, value) ==
    CASE type \in IntTypes -> integer_range(IntMin(type), IntMax(type), value)
      [] type = "float" -> CoerceFloat(value)
      [] type = "bool" -> Ok(CallableV("Boolean"))
      [] type = "string" -> string(value)

\* VALID_TYPES and the element type of an array type
ArrayOf(type) == type \o "[]"
VALID_TYPES == ScalarTypes \cup {ArrayOf(type) : type \in ScalarTypes}
IsArray(type) == \E e \in ScalarTypes : type = ArrayOf(e)
ElemType(type) == CHOOSE e \in ScalarTypes : type = ArrayOf(e)

(***************************************************************************)
(* Compiled argument validators                                            *)
(*                                                                         *)
(* An argument definition is a record with the keys of the catalog; the    *)
(* optional keys "default", "example" and "schema" may be missing.  Its    *)
(* "schema" is the ordered mapping from a constraint name cv to its        *)
(* parameters a: [k |-> "none"], [k |-> "list", items |-> ...] or          *)
(* [k |-> "dict", args |-> ..., kw |-> ...], where args is <<>> without an *)
(* "args" key and <<positional list>> with one.                            *)
(***************************************************************************)
NoParam == [k |-> "none"]
ListParam(items) == [k |-> "list", items |-> items]
DictParam(args, kw) == [k |-> "dict", args |-> args, kw |-> kw]
NoKw == [n \in {} |-> NoneV]

SCHEMA_VALIDATORS == {"Range", "Any", "Length", "proto_pronto", "alternating_signs", "binary_string"}

\* the custom validators of SCHEMA_VALIDATORS, which are plain functions
Custom(cv, value) ==
    CASE cv = "proto_pronto" -> valid(value)
      [] cv = "alternating_signs" -> alternating_signs(value)
      [] cv = "binary_string" -> binary_string(value)

\* binding of positional and keyword arguments to the parameters names of a
\* constructor; a missing parameter takes its default
Bind(names, defaults, pos, kw) ==
    IF Len(pos) > Len(names)
       \/ (\E n \in DOMAIN kw : \A i \in 1..Len(names) : names[i] # n)
       \/ (\E i \in 1..Len(pos) : names[i] \in DOMAIN kw)
    THEN Raise("TypeError", <<>>, "unexpected argument")
    ELSE Ok([n \in {names[i] : i \in 1..Len(names)} |->
                LET at == CHOOSE j \in 1..Len(names) : names[j] = n
                IN  IF at <= Len(pos) THEN pos[at]
                    ELSE IF n \in DOMAIN kw THEN kw[n]
                    ELSE defaults[at]])

\* SCHEMA_VALIDATORS[cv](*posargs, **a): the validator built at compile time
Construct(cv, pos, kw) ==
    LET built(b) == IF b.ok THEN Ok([cv |-> cv, mode |-> "built", p |-> b.value]) ELSE b
        literal(r) == IF r.ok THEN Ok([cv |-> cv, mode |-> "literal", p |-> r.value]) ELSE r
    IN  CASE cv \in {"Range", "Length"} ->
                built(Bind(IF cv = "Range"
                           THEN <<"min", "max", "min_included", "max_included", "msg">>
                           ELSE <<"min", "max", "msg">>,
                           IF cv = "Range"
                           THEN <<NoneV, NoneV, BoolV(TRUE), BoolV(TRUE), NoneV>>
                           ELSE <<NoneV, NoneV, NoneV>>,
                           pos, kw))
          [] cv = "Any" -> Ok([cv |-> cv, mode |-> "built", p |-> pos])
          [] OTHER ->
                IF Len(pos) # 1 \/ DOMAIN kw # {} THEN Raise("TypeError", <<>>, "unexpected argument")
                ELSE literal(Custom(cv, pos[1]))

\* one round of the loop of generate_arg_schema
CompileConstraint(cv, a) ==
    IF a.k = "none" THEN Ok([cv |-> cv, mode |-> "bare", p |-> NoneV])
    ELSE Construct(cv,
                   IF a.k = "list" THEN a.items ELSE IF a.args = <<>> THEN <<>> ELSE a.args[1],
                   IF a.k = "list" THEN NoKw ELSE a.kw)

ArgSchema(arg) == IF "schema" \in DOMAIN arg THEN arg.schema ELSE <<>>

\* the rounds of the loop of generate_arg_schema over arg["schema"], each
\* with the validator it appends or the exception it raises
Compiled(arg) ==
    [i \in 1..Len(ArgSchema(arg)) |-> CompileConstraint(ArgSchema(arg)[i].cv, ArgSchema(arg)[i].a)]

\* the validator of an argument from the outcomes of the rounds of the loop:
\* the type validator followed by the extra validators, or the exception of
\* the first constructor that raised
ValOf(arg, cs) ==
    LET bad == {i \in 1..Len(cs) : ~cs[i].ok}
    IN  IF bad # {} THEN cs[CHOOSE i \in bad : \A j \in bad : i <= j]
        ELSE Ok([type |-> arg.type, extra |-> [i \in 1..Len(cs) |-> cs[i].value]])

\* generate_arg_schema(arg)
generate_arg_schema(arg) == ValOf(arg, Compiled(arg))

\* truth value of a bound parameter
Truthy(v) ==
    CASE v.t = "bool" -> v.b
      [] v.t = "none" -> FALSE
      [] v.t \in {"int", "float"} -> ~NumIsZero(v)
      [] v.t = "str" -> v.s # <<>>
      [] v.t = "list" -> v.items # <<>>
      [] OTHER -> TRUE

\* == of Python on the values of the model
PyEq(a, b) == IF IsNumber(a) /\ IsNumber(b) THEN NumEq(a, b) ELSE a.t = b.t /\ a = b

\* vol.Length(min, max)
Length(min, max, v) ==
    IF v.t \notin {"str", "list"} THEN Invalid("invalid value or type")
    ELSE LET n == I(IF v.t = "str" THEN Len(v.s) ELSE Len(v.items))
         IN  IF min.t # "none" /\ NumLess(n, min) THEN Invalid("length of value must be at least min")
             ELSE IF max.t # "none" /\ NumLess(max, n) THEN Invalid("length of value must be at most max")
             ELSE Ok(v)

\* vol.Any(*literals)
vol_Any(literals, v) ==
    IF \E i \in 1..Len(literals) : PyEq(v, literals[i]) THEN Ok(v)
    ELSE Invalid("not a valid value")

\* one extra validator applied to a value
ApplyConstraint(c, v) ==
    CASE c.mode = "bare" /\ c.cv \in {"Range", "Any", "Length"} -> Ok(CallableV(c.cv))
      [] c.mode = "bare" /\ c.cv \notin {"Range", "Any", "Length"} -> Custom(c.cv, v)
      [] c.mode = "literal" -> IF PyEq(v, c.p) THEN Ok(v) ELSE Invalid("not a valid value")
      [] c.mode = "built" /\ c.cv = "Range" ->
            Range(c.p["min"], c.p["max"], Truthy(c.p["min_included"]), Truthy(c.p["max_included"]), v)
      [] c.mode = "built" /\ c.cv = "Length" -> Length(c.p["min"], c.p["max"], v)
      [] c.mode = "built" /\ c.cv = "Any" -> vol_Any(c.p, v)

\* the type validator: CPP_TYPES[type], or for an array type
\* vol.All(coerce_list, [CPP_TYPES[element type]]), which reports the first
\* element that fails under its 0-based index
type_cv(type, value) ==
    LET each(rs) ==
            LET bad == {i \in 1..Len(rs) : ~rs[i].ok}
                first == CHOOSE j \in bad : \A k \in bad : j <= k
            IN  IF bad = {} THEN Ok(ListV([i \in 1..Len(rs) |-> rs[i].value]))
                ELSE Prepend(<<Idx(first - 1)>>, rs[first])
        over(elem, l) == [i \in 1..Len(l) |-> CPP_TYPES(elem, l[i])]
        pick(rs) == IF IsArray(type) THEN each(rs) ELSE rs[1]
    IN  pick(over(IF IsArray(type) THEN ElemType(type) ELSE type,
                  IF IsArray(type) THEN coerce_list(value).value.items ELSE <<value>>))

RECURSIVE ApplyExtra(_, _, _)
ApplyExtra(extra, i, v) ==
    LET next(r) == IF r.ok THEN ApplyExtra(extra, i + 1, r.value) ELSE r
    IN  IF i > Len(extra) THEN Ok(v) ELSE next(ApplyConstraint(extra[i], v))

\* the compiled validator of an argument applied to a raw value
\* (val, or vol.All(*val)): base coercion, then every extra validator in
\* declared order, stopping at the first failure
ApplyArg(val, v) ==
    LET extras(b) == IF b.ok THEN ApplyExtra(val.extra, 1, b.value) ELSE b
    IN  extras(type_cv(val.type, v))

(***************************************************************************)
(* protocols.yaml validation                                               *)
(*                                                                         *)
(* A mapping that keeps its insertion order (the catalog, PROTO_DEF,       *)
(* PROTO_SCHEMA) is a sequence of [name, def] entries with distinct names. *)
(* The optional "link" list of a protocol is not part of the model.        *)
(***************************************************************************)
Names(d) == [i \in 1..Len(d) |-> d[i].name]
Has(d, n) == \E i \in 1..Len(d) : d[i].name = n
Get(d, n) == d[CHOOSE i \in 1..Len(d) : d[i].name = n].def

\* the outcome of validating the members of a sequence or mapping: an
\* exception that is not vol.Invalid leaves at once, vol.Invalid errors are
\* collected and the first one is reported
Collect(rs) ==
    LET hard == {i \in 1..Len(rs) : ~rs[i].ok /\ rs[i].exc # "Invalid"}
        soft == {i \in 1..Len(rs) : ~rs[i].ok}
    IN  IF hard # {} THEN rs[CHOOSE i \in hard : \A j \in hard : i <= j]
        ELSE IF soft # {} THEN rs[CHOOSE i \in soft : \A j \in soft : i <= j]
        ELSE Ok(NoneV)

\* valid_name: ^[a-zA-Z_][a-zA-Z0-9_]*$
valid_name(name) ==
    /\ name # <<>>
    /\ IsLower(name[1]) \/ IsUpper(name[1]) \/ name[1] = "_"
    /\ \A i \in 1..Len(name) : IsLower(name[i]) \/ IsUpper(name[i]) \/ IsDigit(name[i]) \/ name[i] = "_"

\* SCHEMA_SCHEMA: known constraint names, each with a list, a mapping or nothing
SCHEMA_SCHEMA(sch) ==
    \A i \in 1..Len(sch) : sch[i].cv \in SCHEMA_VALIDATORS /\ sch[i].a.k \in {"none", "list", "dict"}

\* validate_default letting a default through that its validator refuses
validate_default_unchecked(arg) ==
    LET checked(r) == IF r.ok THEN Ok([arg EXCEPT !.default = r.value]) ELSE Ok(arg)
        compiled(val) == IF ~val.ok THEN val ELSE checked(ApplyArg(val.value, arg.default))
    IN  IF "default" \notin DOMAIN arg THEN Ok(arg) ELSE compiled(generate_arg_schema(arg))

\* validate_default(arg): the default run through the full compiled
\* validator; the argument comes back with its coerced default
validate_default(arg) ==
    LET checked(r) ==
            IF r.ok THEN Ok([arg EXCEPT !.default = r.value])
            ELSE IF r.exc = "Invalid" THEN Invalid("Error in default value for argument")
            ELSE r
        compiled(val) == IF ~val.ok THEN val ELSE checked(ApplyArg(val.value, arg.default))
    IN  IF "default" \notin DOMAIN arg THEN Ok(arg) ELSE compiled(generate_arg_schema(arg))

\* ARGS_SCHEMA: the structure of one argument, then validate_default
ARGS_SCHEMA(arg) ==
    IF /\ DOMAIN arg \subseteq {"name", "type", "desc", "default", "example", "schema"}
       /\ {"name", "type", "desc"} \subseteq DOMAIN arg
       /\ valid_name(arg.name)
       /\ arg.type \in VALID_TYPES
       /\ string(arg.desc).ok
       /\ ("example" \in DOMAIN arg => string(arg.example).ok)
       /\ ("schema" \in DOMAIN arg => SCHEMA_SCHEMA(arg.schema))
    THEN validate_default(arg)
    ELSE Invalid("invalid argument definition")

\* unique_field_value("name")
unique_field_value(args) ==
    \A i, j \in 1..Len(args) : args[i].name = args[j].name => i = j

\* PROTOCOL_DEF_SCHEMA: desc, type and a non-empty list of arguments with
\* distinct names
PROTOCOL_DEF_SCHEMA(def) ==
    LET args(each) ==
            IF ~each.ok THEN each
            ELSE IF Len(def.args) < 1 THEN Invalid("length of value must be at least 1")
            ELSE IF ~unique_field_value(def.args) THEN Invalid("contains duplicate items")
            ELSE Ok(NoneV)
    IN  IF /\ DOMAIN def \subseteq {"desc", "type", "note", "args"}
           /\ {"desc", "type", "args"} \subseteq DOMAIN def
           /\ string(def.desc).ok
           /\ def.type \in {"IR", "RF", "IR/RF"}
           /\ ("note" \in DOMAIN def => string(def.note).ok)
        THEN args(Collect([i \in 1..Len(def.args) |-> ARGS_SCHEMA(def.args[i])]))
        ELSE Invalid("invalid protocol definition")

\* PROTOCOLS_SCHEMA: {valid_name: PROTOCOL_DEF_SCHEMA}
PROTOCOLS_SCHEMA(proto_yaml) ==
    Collect([i \in 1..Len(proto_yaml) |->
                IF valid_name(proto_yaml[i].name) THEN PROTOCOL_DEF_SCHEMA(proto_yaml[i].def)
                ELSE Invalid("Invalid characters for an identifier name")])

\* load_protocols(): the catalog read from protocols.yaml is validated and
\* returned as it was read; the validated copy is dropped
load_protocols(proto_yaml) ==
    LET raw(checked) == IF checked.ok THEN Ok(proto_yaml) ELSE checked
    IN  raw(PROTOCOLS_SCHEMA(proto_yaml))

(***************************************************************************)
(* generate_proto_schema                                                   *)
(***************************************************************************)
\* what generate_arg_schema leaves of the argument it was given: the "args"
\* key of every mapping of parameters it went through is deleted
ArgAfterCompile(arg, cs) ==
    LET bad == {i \in 1..Len(cs) : ~cs[i].ok}
        upto == IF bad = {} THEN Len(cs) ELSE CHOOSE i \in bad : \A j \in bad : i <= j
    IN  IF "schema" \notin DOMAIN arg THEN arg
        ELSE [arg EXCEPT !.schema =
                 [i \in 1..Len(arg.schema) |->
                     IF i <= upto /\ arg.schema[i].a.k = "dict"
                     THEN [arg.schema[i] EXCEPT !.a.args = <<>>] ELSE arg.schema[i]]]

\* the key and the validator of one argument in the schema of its protocol:
\* vol.Optional(name, default=default) or vol.Required(name)
SchemaKey(arg, val) ==
    IF "default" \in DOMAIN arg
    THEN [name |-> arg.name, required |-> FALSE, default |-> <<arg.default>>, val |-> val.value]
    ELSE [name |-> arg.name, required |-> TRUE, default |-> <<>>, val |-> val.value]

\* the first argument, in catalog order, whose validator cannot be built:
\* <<protocol index, argument index>>, or <<>> when every one can
FirstCompileError(protocols, cs) ==
    LET all == UNION {{<<p, a>> : a \in 1..Len(protocols[p].def.args)} : p \in 1..Len(protocols)}
        bad == {pa \in all : ~ValOf(protocols[pa[1]].def.args[pa[2]], cs[pa[1]][pa[2]]).ok}
    IN  IF bad = {} THEN <<>>
        ELSE CHOOSE pa \in bad : \A o \in bad : pa[1] < o[1] \/ (pa[1] = o[1] /\ pa[2] <= o[2])

\* generate_proto_schema(protocols): one schema per protocol, built in
\* catalog order; .protocols is the catalog as the call leaves it
generate_proto_schema(protocols) ==
    LET arg(p, a) == protocols[p].def.args[a]
        built(cs) ==
            LET f == FirstCompileError(protocols, cs)
                reached(p, a) == f = <<>> \/ p < f[1] \/ (p = f[1] /\ a <= f[2])
                left == [p \in 1..Len(protocols) |->
                            [protocols[p] EXCEPT !.def.args =
                                [a \in 1..Len(protocols[p].def.args) |->
                                    IF reached(p, a) THEN ArgAfterCompile(arg(p, a), cs[p][a])
                                    ELSE arg(p, a)]]]
            IN  IF f # <<>>
                THEN [ValOf(arg(f[1], f[2]), cs[f[1]][f[2]]) EXCEPT !.path = <<>>]
                         @@ [protocols |-> left]
                ELSE [ok |-> TRUE, protocols |-> left,
                      value |-> [p \in 1..Len(protocols) |->
                                    [name |-> protocols[p].name,
                                     def |-> [a \in 1..Len(protocols[p].def.args) |->
                                                 SchemaKey(arg(p, a), ValOf(arg(p, a), cs[p][a]))]]]]
    IN  built([p \in 1..Len(protocols) |->
                  [a \in 1..Len(protocols[p].def.args) |-> Compiled(protocols[p].def.args[a])]])

(***************************************************************************)
(* Values validation: the calls made on the cache                          *)
(***************************************************************************)
PROTO_DEF == "proto_def"
PROTO_SCHEMA == "proto_schema"
VALID_PROTOCOLS == "valid_protocols"

T_protocol == <<"p", "r", "o", "t", "o", "c", "o", "l">>
T_args == <<"a", "r", "g", "s">>

\* the items enumerate() and len() see in a list or a string
Items(v) ==
    CASE v.t = "list" -> v.items
      [] v.t = "str" -> [i \in 1..Len(v.s) |-> StrV(<<v.s[i]>>)]
      [] OTHER -> <<>>

validate_protocol_name(cache, proto_name) ==
    LET st == string_strict(proto_name)
    IN  IF ~st.ok THEN st
        ELSE IF PROTO_DEF \notin DOMAIN cache THEN Invalid("Protocols not initialized")
        ELSE IF ~Has(cache[PROTO_DEF], Lower(proto_name.s)) THEN Invalid("Protocol is not defined")
        ELSE Ok(StrV(Lower(proto_name.s)))

\* get_proto_def(proto_name): the name is validated in lower case and then
\* looked up as it was given
get_proto_def(cache, proto_name) ==
    LET v == validate_protocol_name(cache, proto_name)
    IN  IF ~v.ok THEN v
        ELSE IF Has(cache[PROTO_DEF], proto_name.s) THEN Ok(Get(cache[PROTO_DEF], proto_name.s))
        ELSE Raise("KeyError", <<>>, "proto_name")

\* arg['type'].replace('_t', '')
TypeText(type) ==
    LET scalar(e) ==
            CASE e = "int" -> <<"i", "n", "t">>
              [] e = "int32_t" -> <<"i", "n", "t", "3", "2">>
              [] e = "uint" -> <<"u", "i", "n", "t">>
              [] e = "uint8_t" -> <<"u", "i", "n", "t", "8">>
              [] e = "uint16_t" -> <<"u", "i", "n", "t", "1", "6">>
              [] e = "uint32_t" -> <<"u", "i", "n", "t", "3", "2">>
              [] e = "uint64_t" -> <<"u", "i", "n", "t", "6", "4">>
              [] e = "float" -> <<"f", "l", "o", "a", "t">>
              [] e = "bool" -> <<"b", "o", "o", "l">>
              [] e = "string" -> <<"s", "t", "r", "i", "n", "g">>
    IN  IF IsArray(type) THEN scalar(ElemType(type)) \o <<"[", "]">> ELSE scalar(type)

\* get_proto_signature(proto_name): name:<type arg>:<type arg?=default>...
get_proto_signature(cache, proto_name) ==
    LET d == get_proto_def(cache, proto_name)
        decl(arg) ==
            <<"<">> \o TypeText(arg.type) \o <<SPC>> \o arg.name
            \o (IF "default" \in DOMAIN arg THEN <<"?", "=">> \o PyStr(arg.default) ELSE <<>>)
            \o <<">">>
    IN  IF ~d.ok THEN d
        ELSE Ok(StrV(Join(<<proto_name.s>> \o [i \in 1..Len(d.value.args) |-> decl(d.value.args[i])], ":")))

\* args_to_dict(proto, args): every positional value, in order, under the
\* name of the argument declared at its index
args_to_dict(cache, proto, args) ==
    LET d == get_proto_def(cache, proto)
    IN  IF ~d.ok THEN d
        ELSE IF Len(d.value.args) < Len(Items(args)) THEN Invalid("Expected maximum arguments")
        ELSE Ok([i \in 1..Len(Items(args)) |-> [name |-> d.value.args[i].name, def |-> Items(args)[i]]])

\* the schema of a protocol applied to a mapping of named values: the set of
\* outcomes the call can have.  The values given are validated in the order
\* of the mapping, then the defaults put in for the optional keys left out;
\* a required key left out is reported after them.  The defaults and the
\* required keys are walked in the order of a set of keys, which is any.
\* The error raised is the first one found.
ApplyProtoSchema(keys, args) ==
    LET at(n) == CHOOSE i \in 1..Len(keys) : keys[i].name = n
        defaulted == SelectSeq([k \in 1..Len(keys) |-> k],
                               LAMBDA k : ~keys[k].required /\ ~Has(args, keys[k].name))
        \* the values validated: those given, then the defaults put in
        work == [i \in 1..Len(args) |-> [name |-> args[i].name, def |-> args[i].def]]
                \o [j \in 1..Len(defaulted) |->
                       [name |-> keys[defaulted[j]].name, def |-> keys[defaulted[j]].default[1]]]
        validate(w) ==
            IF \E k \in 1..Len(keys) : keys[k].name = w.name
            THEN Prepend(<<Key(w.name)>>, ApplyArg(keys[at(w.name)].val, w.def))
            ELSE Raise("Invalid", <<Key(w.name)>>, "extra keys not allowed")
        decide(rs) ==
            LET first == Collect(SubSeq(rs, 1, Len(args)))
                filled == (Len(args) + 1)..Len(rs)
                missing == {k \in 1..Len(keys) : keys[k].required /\ ~Has(args, keys[k].name)}
                out(k) == rs[CHOOSE w \in 1..Len(rs) : work[w].name = keys[k].name].value
            IN  IF ~first.ok /\ first.exc # "Invalid" THEN {first}
                ELSE IF \E w \in filled : ~rs[w].ok /\ rs[w].exc # "Invalid"
                THEN {rs[w] : w \in {j \in filled : ~rs[j].ok /\ rs[j].exc # "Invalid"}}
                ELSE IF ~first.ok THEN {first}
                ELSE IF \E w \in filled : ~rs[w].ok
                THEN {rs[w] : w \in {j \in filled : ~rs[j].ok}}
                ELSE IF missing # {}
                THEN {Raise("Invalid", <<Key(keys[k].name)>>, "required key not provided") : k \in missing}
                ELSE {Ok(ListV([k \in 1..Len(keys) |-> out(k)]))}
    IN  decide([w \in 1..Len(work) |-> validate(work[w])])

\* the error validate_command raises in place of a vol.Invalid: the
\* signature of the protocol and the last element of the error path as label
Malformatted(cache, protocol, err) ==
    [ok |-> FALSE, exc |-> "Invalid", path |-> <<>>, msg |-> "Malformatted command",
     signature |-> get_proto_signature(cache, protocol).value,
     label |-> IF err.path # <<>> THEN <<err.path[Len(err.path)]>> ELSE <<>>,
     error |-> err.msg]

\* validate_command(command): the set of outcomes of the call
validate_command(cache, command) ==
    LET name == validate_protocol_name(cache, command.protocol)
        dict == args_to_dict(cache, name.value, command.args)
        wrap(r) == IF r.ok THEN Ok([protocol |-> name.value, args |-> r.value])
                   ELSE IF r.exc # "Invalid" THEN r
                   ELSE IF ~get_proto_signature(cache, name.value).ok
                   THEN get_proto_signature(cache, name.value)
                   ELSE Malformatted(cache, name.value, r)
    IN  IF ~name.ok THEN {Prepend(<<Key(T_protocol)>>, name)}
        ELSE IF Len(Items(command.args)) < 1
        THEN {Raise("Invalid", <<Key(T_args)>>, "length of value must be at least 1")}
        ELSE IF ~dict.ok THEN {wrap(dict)}
        ELSE IF PROTO_SCHEMA \notin DOMAIN cache \/ ~Has(cache[PROTO_SCHEMA], name.value.s)
        THEN {Raise("KeyError", <<>>, "proto_schema")}
        ELSE {wrap(r) : r \in ApplyProtoSchema(Get(cache[PROTO_SCHEMA], name.value.s), dict.value)}

\* validate_send_command(command): the text is split on ":" into the
\* protocol and its positional values
validate_send_command(cache, command) ==
    LET st == string_strict(command)
        command_list == quoted_split(command.s, ":")
    IN  IF ~st.ok THEN {st}
        ELSE IF Len(command_list) <= 1
        THEN {Invalid("Command string needs to have at least a protocol and a parameter list")}
        ELSE validate_command(cache,
                 [protocol |-> StrV(command_list[1]),
                  args |-> ListV([i \in 1..(Len(command_list) - 1) |-> StrV(command_list[i + 1])])])

(***************************************************************************)
(* Catalogs read from protocols.yaml and values handed to the calls        *)
(***************************************************************************)
N_beep == <<"b", "e", "e", "p">>
N_raw == <<"r", "a", "w">>
N_NEC == <<"N", "E", "C">>
N_zap == <<"z", "a", "p">>
A_freq == <<"f", "r", "e", "q">>
A_duration == <<"d", "u", "r", "a", "t", "i", "o", "n">>
A_data == <<"d", "a", "t", "a">>
A_repeat == <<"r", "e", "p", "e", "a", "t">>
A_address == <<"a", "d", "d", "r", "e", "s", "s">>
A_command == <<"c", "o", "m", "m", "a", "n", "d">>
Desc == StrV(<<"d">>)

\* beep:<uint16 freq>:<uint16 duration?=0x64>, the default written as text
\* and bounded by Range(1, max=1000)
P_beep ==
    [name |-> N_beep,
     def |-> [desc |-> Desc, type |-> "IR",
              args |-> <<[name |-> A_freq, type |-> "uint16_t", desc |-> Desc],
                         [name |-> A_duration, type |-> "uint16_t", desc |-> Desc,
                          default |-> StrV(<<"0", "x", "6", "4">>),
                          schema |-> <<[cv |-> "Range",
                                        a |-> DictParam(<<<<I(1)>>>>, [max |-> I(1000)])]>>]>>]]

\* raw:<int[] data>:<uint8 repeat?=1.0>, data alternating in sign
P_raw ==
    [name |-> N_raw,
     def |-> [desc |-> Desc, type |-> "IR/RF", note |-> Desc,
              args |-> <<[name |-> A_data, type |-> "int[]", desc |-> Desc,
                          schema |-> <<[cv |-> "alternating_signs", a |-> NoParam]>>],
                         [name |-> A_repeat, type |-> "uint8_t", desc |-> Desc,
                          default |-> FloatV(FALSE, <<1>>, <<>>)]>>]]

\* NEC:<uint16 address>:<uint16 command?=0>, a name with capital letters
P_NEC ==
    [name |-> N_NEC,
     def |-> [desc |-> Desc, type |-> "IR",
              args |-> <<[name |-> A_address, type |-> "uint16_t", desc |-> Desc],
                         [name |-> A_command, type |-> "uint16_t", desc |-> Desc,
                          default |-> I(0)]>>]]

\* beep with one 8-bit argument
P_beep8 ==
    [name |-> N_beep,
     def |-> [desc |-> Desc, type |-> "RF",
              args |-> <<[name |-> A_freq, type |-> "uint8_t", desc |-> Desc,
                          schema |-> <<[cv |-> "Range", a |-> ListParam(<<I(1), I(200)>>)]>>]>>]]

\* the argument at index i of a protocol, changed
WithArg(proto, i, arg) == [proto EXCEPT !.def.args[i] = arg]

CatMain == <<P_beep, P_raw>>
CatAlt == <<P_beep8>>
CatUpper == <<P_NEC>>
\* a default outside the range of its type
CatBadDefaultType == <<WithArg(P_beep, 2, [P_beep.def.args[2] EXCEPT !.default = I(70000)])>>
\* a default of the right type that fails the extra validator Range(1, max=1000)
CatBadDefaultExtra == <<P_raw, WithArg(P_beep, 2, [P_beep.def.args[2] EXCEPT !.default = I(2000)])>>
\* an empty argument list
CatBadStruct == <<[P_beep EXCEPT !.def.args = <<>>]>>
\* a required argument whose Range is given a keyword Range does not have
CatBadSchema ==
    <<P_raw,
      WithArg(P_beep, 1, [name |-> A_freq, type |-> "uint16_t", desc |-> Desc,
                          schema |-> <<[cv |-> "Range",
                                        a |-> DictParam(<<<<I(1)>>>>, [bogus |-> I(1)])]>>])>>

Catalogs == {CatMain, CatAlt, CatUpper, CatBadDefaultType, CatBadDefaultExtra,
             CatBadStruct, CatBadSchema}

\* protocol names as callers write them
NameInputs == {N_beep, Upper(N_beep), N_raw, N_NEC, Lower(N_NEC), N_zap}

\* positional tokens of a text command: a number, and a list whose second
\* element is not a number
Tokens == {<<"4", "4", "0">>, <<"1", ",", "x">>}

\* the positional tokens of a text command: up to two, the arguments of the
\* largest protocol of the catalogs, and two followed by up to MaxExtra more
TokenLists ==
    UNION {[1..k -> Tokens] : k \in 0..2}
    \cup {l \o [i \in 1..e |-> <<"4", "4", "0">>] : l \in [1..2 -> Tokens], e \in 1..MaxExtra}

\* one or two tokens of which one at least is empty
EmptyTokenLists ==
    {l \in UNION {[1..k -> {<<"4", "4", "0">>, <<>>}] : k \in 1..2} : \E i \in 1..Len(l) : l[i] = <<>>}

\* a text command as it is written: an empty last token is followed by its
\* delimiter, without which the tokenizer does not yield it
Written_command(n, toks) ==
    Join(<<n>> \o toks, ":") \o (IF toks # <<>> /\ toks[Len(toks)] = <<>> THEN <<":">> ELSE <<>>)

\* the text commands: name:token:token..., commands with empty tokens, and
\* the empty text
TextInputs ==
    {Join(<<n>> \o toks, ":") : n \in NameInputs, toks \in TokenLists}
    \cup {Written_command(n, toks) : n \in {N_beep, N_raw}, toks \in EmptyTokenLists}
    \cup {<<>>}

\* values of a structured command: an integer, a list of two positive
\* integers
NativeValues == {I(440), ListV(<<I(1), I(1)>>)}

NativeLists ==
    UNION {[1..k -> NativeValues] : k \in 0..2}
    \cup {l \o [i \in 1..e |-> I(440)] : l \in [1..2 -> NativeValues], e \in 1..MaxExtra}

\* the structured commands, and commands whose values are tokens of which
\* one at least is empty
CommandInputs ==
    {[protocol |-> n, args |-> ListV(a)] :
        n \in {StrV(N_beep), StrV(Upper(N_beep)), StrV(N_raw), StrV(N_NEC), I(5)},
        a \in NativeLists}
    \cup {[protocol |-> StrV(n), args |-> ListV([i \in 1..Len(toks) |-> StrV(toks[i])])] :
             n \in {N_beep, N_raw}, toks \in EmptyTokenLists}

\* the names asked of get_proto_def and get_proto_signature
LookupInputs == {StrV(n) : n \in NameInputs} \cup {I(5)}

(***************************************************************************)
(* The registry: PROTO_CACHE and the calls made on it                      *)
(*                                                                         *)
(* PROTO_CACHE is the module-level dict, a function from the keys it holds *)
(* to their values.  result is the outcome of the last call; pending is    *)
(* the input of a helper under test in the specifications of the helpers.  *)
(***************************************************************************)
Set(cache, key, value) == [k \in DOMAIN cache \cup {key} |-> IF k = key THEN value ELSE cache[k]]

Init ==
    /\ PROTO_CACHE = [k \in {} |-> <<>>]
    /\ result = [op |-> "none"]
    /\ pending = NoneV

\* initialize(): the three keys are assigned one after the other, each from
\* a call that may raise
initialize(proto_yaml) ==
    LET raised(err) == [op |-> "initialize", input |-> proto_yaml, out |-> err]
        assign(schemas) ==
            LET c1 == Set(PROTO_CACHE, PROTO_DEF, schemas.protocols)
                c2 == Set(c1, PROTO_SCHEMA, schemas.value)
                c3 == Set(c2, VALID_PROTOCOLS, Names(c2[PROTO_DEF]))
            IN  IF ~schemas.ok
                THEN /\ PROTO_CACHE' = c1
                     /\ result' = raised(Raise(schemas.exc, <<>>, schemas.msg))
                ELSE /\ PROTO_CACHE' = c3
                     /\ result' = raised(Ok(NoneV))
        load(loaded) ==
            IF ~loaded.ok
            THEN /\ PROTO_CACHE' = PROTO_CACHE
                 /\ result' = raised(loaded)
            ELSE assign(generate_proto_schema(loaded.value))
    IN  /\ pending' = pending
        /\ load(load_protocols(proto_yaml))

Initialize == \E proto_yaml \in Catalogs : initialize(proto_yaml)

\* the module has been imported: its own call of initialize() has returned,
\* and the functions of the module can be called
Imported == {PROTO_DEF, PROTO_SCHEMA, VALID_PROTOCOLS} \subseteq DOMAIN PROTO_CACHE

ValidateSendCommand ==
    /\ Imported
    /\ \E text \in TextInputs :
           \E r \in validate_send_command(PROTO_CACHE, StrV(text)) :
               /\ result' = [op |-> "validate_send_command", input |-> StrV(text), out |-> r]
               /\ UNCHANGED <<PROTO_CACHE, pending>>

\* validate_command dropping the compiled schemas when the command is refused
ValidateCommand_dropping ==
    /\ Imported
    /\ \E command \in CommandInputs :
           \E r \in validate_command(PROTO_CACHE, command) :
               /\ result' = [op |-> "validate_command", input |-> command, out |-> r]
               /\ PROTO_CACHE' = IF r.ok THEN PROTO_CACHE
                                 ELSE [k \in DOMAIN PROTO_CACHE \ {PROTO_SCHEMA} |-> PROTO_CACHE[k]]
               /\ pending' = pending

ValidateCommand ==
    /\ Imported
    /\ \E command \in CommandInputs :
           \E r \in validate_command(PROTO_CACHE, command) :
               /\ result' = [op |-> "validate_command", input |-> command, out |-> r]
               /\ UNCHANGED <<PROTO_CACHE, pending>>

GetProtoDef ==
    /\ Imported
    /\ \E proto_name \in LookupInputs :
           /\ result' = [op |-> "get_proto_def", input |-> proto_name,
                         out |-> get_proto_def(PROTO_CACHE, proto_name)]
           /\ UNCHANGED <<PROTO_CACHE, pending>>

GetProtoSignature ==
    /\ Imported
    /\ \E proto_name \in LookupInputs :
           /\ result' = [op |-> "get_proto_signature", input |-> proto_name,
                         out |-> get_proto_signature(PROTO_CACHE, proto_name)]
           /\ UNCHANGED <<PROTO_CACHE, pending>>

Next ==
    \/ Initialize
    \/ ValidateSendCommand
    \/ ValidateCommand
    \/ GetProtoDef
    \/ GetProtoSignature

Spec == Init /\ [][Next]_vars

(***************************************************************************)
(* The tokenizer on its own: quoted_split applied to a drawn text          *)
(***************************************************************************)
SplitAlphabet == {"a", ",", ":", DQ, SPC}

RECURSIVE TextsOf(_)
\* the texts of length n over SplitAlphabet
TextsOf(n) ==
    IF n = 0 THEN {<<>>}
    ELSE {<<c>> \o t : c \in SplitAlphabet, t \in TextsOf(n - 1)}

\* the texts of the functional examples
Ex_quoted == <<"a", ",", "\"", "b", ",", "c", "\"", ",", "d">>
Ex_empty_token == <<"a", ",", ",", "b">>

SplitInputs ==
    {[text |-> t, delimiter |-> d] :
        t \in UNION {TextsOf(n) : n \in 0..MaxLen} \cup {Ex_quoted, Ex_empty_token},
        d \in {",", ":"}}

InitSplit ==
    /\ PROTO_CACHE = [k \in {} |-> <<>>]
    /\ result = [op |-> "none"]
    /\ pending \in SplitInputs

QuotedSplit ==
    /\ result.op = "none"
    /\ result' = [op |-> "quoted_split", input |-> pending,
                  out |-> quoted_split(pending.text, pending.delimiter)]
    /\ UNCHANGED <<PROTO_CACHE, pending>>

NextSplit == QuotedSplit

SpecSplit == InitSplit /\ [][NextSplit]_vars

(***************************************************************************)
(* The integer types on their own: CPP_TYPES[type] applied to a drawn      *)
(* value, written in one of the forms a caller can give it                 *)
(***************************************************************************)
\* quotient and remainder of a magnitude divided by 16
DivMod16(mag) ==
    LET R[n \in 0..Len(mag)] == IF n = 0 THEN 0 ELSE (R[n - 1] * 10 + mag[n]) % 16
    IN  [q |-> StripZeros([n \in 1..Len(mag) |-> (R[n - 1] * 10 + mag[n]) \div 16]),
         r |-> R[Len(mag)]]

RECURSIVE HexText(_)
\* the hexadecimal digits of a magnitude
HexText(mag) ==
    IF mag = <<>> THEN <<>>
    ELSE HexText(DivMod16(mag).q) \o <<HexDigits[DivMod16(mag).r + 1]>>

SignText(v) == IF v.neg THEN <<"-">> ELSE <<>>

Forms == {"int", "dec", "dec_plus", "dec_zeros", "dec_spaces", "hex", "hex_upper", "float", "float_half"}

\* whether the integer v can be written in the form: hexadecimal text has no
\* sign, a float holds the integers of up to 15 digits exactly
HasForm(v, form) ==
    CASE form \in {"hex", "hex_upper"} -> ~v.neg
      [] form = "dec_plus" -> ~v.neg
      [] form \in {"float", "float_half"} -> Len(v.mag) <= 15
      [] OTHER -> TRUE

\* the value a caller hands over to mean the integer v (float_half: v and a half)
Written(v, form) ==
    CASE form = "int" -> v
      [] form = "dec" -> StrV(SignText(v) \o MagText(v.mag))
      [] form = "dec_plus" -> StrV(<<"+">> \o MagText(v.mag))
      [] form = "dec_zeros" -> StrV(SignText(v) \o <<"0", "0">> \o MagText(v.mag))
      [] form = "dec_spaces" -> StrV(<<SPC>> \o SignText(v) \o MagText(v.mag) \o <<SPC>>)
      [] form = "hex" -> StrV(<<"0", "x">> \o (IF v.mag = <<>> THEN <<"0">> ELSE HexText(v.mag)))
      [] form = "hex_upper" -> StrV(Upper(<<"0", "x">> \o (IF v.mag = <<>> THEN <<"0">> ELSE HexText(v.mag))))
      [] form = "float" -> FloatV(v.neg, v.mag, <<>>)
      [] form = "float_half" -> FloatV(v.neg, v.mag, <<5>>)

\* the integers tried for a type: around zero and around each of its bounds
Around(type) ==
    {IntAdd(b, d) : b \in {IntMin(type), IntMax(type), I(0)}, d \in (0 - MaxOff)..MaxOff}

IntInputs ==
    {[type |-> type, v |-> v, form |-> form] :
        type \in IntTypes, v \in UNION {Around(ty) : ty \in IntTypes}, form \in Forms}

InitInt ==
    /\ PROTO_CACHE = [k \in {} |-> <<>>]
    /\ result = [op |-> "none"]
    /\ pending \in {i \in IntInputs : HasForm(i.v, i.form)}

CoerceInteger ==
    /\ result.op = "none"
    /\ result' = [op |-> "CPP_TYPES", input |-> pending,
                  out |-> CPP_TYPES(pending.type, Written(pending.v, pending.form))]
    /\ UNCHANGED <<PROTO_CACHE, pending>>

NextInt == CoerceInteger

SpecInt == InitInt /\ [][NextInt]_vars

(***************************************************************************)
(* Properties of the tokenizer                                             *)
(***************************************************************************)
RECURSIVE Concat(_)
Concat(parts) == IF parts = <<>> THEN <<>> ELSE Head(parts) \o Concat(Tail(parts))

\* the characters of a text that are neither whitespace nor the delimiter
Solid(text, d) == SelectSeq(text, LAMBDA c : c \notin Whitespace \cup {d})

Count(text, d) == Cardinality({i \in 1..Len(text) : text[i] = d})

\* every delimiter kept in the token stands between two equal quotes
DelimiterQuoted(tok, d) ==
    \A i \in 1..Len(tok) :
        tok[i] = d => \E q \in 1..(i - 1), c \in (i + 1)..Len(tok) : tok[q] \in Quotes /\ tok[c] = tok[q]

Trimmed(tok) == tok = <<>> \/ (tok[1] \notin Whitespace /\ tok[Len(tok)] \notin Whitespace)

\* what holds of every call: the tokens are trimmed, they keep the text in
\* order, a delimiter outside quotes always splits and, in a text without
\* quotes, each delimiter ends one token
SplitsOutsideQuotes ==
    LET text == result.input.text
        d == result.input.delimiter
        out == result.out
    IN  /\ \A i \in 1..Len(out) : Trimmed(out[i]) /\ DelimiterQuoted(out[i], d)
        /\ Solid(Concat(out), d) = Solid(text, d)
        /\ (\A i \in 1..Len(text) : text[i] \notin Quotes) =>
               Len(out) = Count(text, d) + (IF text = <<>> \/ text[Len(text)] = d THEN 0 ELSE 1)

\* C7 as stated: quoted_split splits only at delimiters outside a quoted run
\* and returns the trimmed tokens in order; 'a,"b,c",d' gives the tokens a,
\* b,c and d; "a,,b" gives a, the empty token and b; the empty text gives
\* the empty list.
C7_QuotedSplitStripsQuotes ==
    (result.op = "quoted_split" /\ result.input.delimiter = ",") =>
        /\ SplitsOutsideQuotes
        /\ result.input.text = Ex_quoted => result.out = <<<<"a">>, <<"b", ",", "c">>, <<"d">>>>
        /\ result.input.text = Ex_empty_token => result.out = <<<<"a">>, <<>>, <<"b">>>>
        /\ result.input.text = <<>> => result.out = <<>>

\* C7 as amended: the same, the quoted token keeping its quotes:
\* 'a,"b,c",d' gives the tokens a, "b,c" (quotes included) and d.
C7_QuotedSplitKeepsQuotes ==
    (result.op = "quoted_split" /\ result.input.delimiter = ",") =>
        /\ SplitsOutsideQuotes
        /\ result.input.text = Ex_quoted => result.out = <<<<"a">>, <<"\"", "b", ",", "c", "\"">>, <<"d">>>>
        /\ result.input.text = Ex_empty_token => result.out = <<<<"a">>, <<>>, <<"b">>>>
        /\ result.input.text = <<>> => result.out = <<>>

\* the quoted example has been split
C7_Witness ==
    /\ result.op = "quoted_split"
    /\ result.input = [text |-> Ex_quoted, delimiter |-> ","]
    /\ Len(result.out) = 3

(***************************************************************************)
(* Properties of the integer types                                         *)
(***************************************************************************)
\* x <= y on integers, from their signs and decimal digits
IntLeq(x, y) ==
    CASE x.neg /\ ~y.neg -> TRUE
      [] ~x.neg /\ y.neg -> FALSE
      [] ~x.neg /\ ~y.neg -> x.mag = y.mag \/ MagLess(x.mag, y.mag)
      [] x.neg /\ y.neg -> x.mag = y.mag \/ MagLess(y.mag, x.mag)

\* C8: for every integer type with bounds [lo, hi], a native integer, a
\* decimal text, a 0x text or a float without fractional part that denotes
\* v is coerced to v exactly when lo <= v <= hi and refused otherwise; a
\* value with a fractional part is always refused.
C8_IntegerCoercion ==
    result.op = "CPP_TYPES" =>
        LET i == result.input
            inRange == IntLeq(IntMin(i.type), i.v) /\ IntLeq(i.v, IntMax(i.type))
        IN  IF i.form = "float_half" THEN ~result.out.ok
            ELSE /\ result.out.ok <=> inRange
                 /\ result.out.ok => result.out.value = i.v

\* "0XFF" has been coerced to 255 as uint8_t
C8_Witness ==
    /\ result.op = "CPP_TYPES"
    /\ result.input = [type |-> "uint8_t", v |-> I(255), form |-> "hex_upper"]
    /\ result.out = Ok(I(255))

(***************************************************************************)
(* Properties of the registry                                              *)
(***************************************************************************)
\* the protocols the registry defines, in the order of the catalog
Registered == IF PROTO_DEF \in DOMAIN PROTO_CACHE THEN PROTO_CACHE[PROTO_DEF] ELSE <<>>

\* the registered protocols whose name is s when letter case is ignored
Matching(s) == {i \in 1..Len(Registered) : Lower(Registered[i].name) = Lower(s)}

UnknownProtocol(out) == ~out.ok /\ out.exc = "Invalid" /\ out.msg = "Protocol is not defined"

\* the protocol a text command names
NameOf(text) == quoted_split(text, ":")[1]

\* C3: lookup ignores letter case.  For a name s that a registered name N
\* equals when case is ignored, get_proto_def(s) returns the definition of N
\* and validate_command with protocol s resolves to N; for a name that matches
\* no registered name, get_proto_def, validate_command and
\* validate_send_command fail with the unknown-protocol error.
C3_CaseInsensitiveLookup ==
    /\ (result.op = "get_proto_def" /\ result.input.t = "str") =>
           IF Matching(result.input.s) # {}
           THEN result.out.ok /\ \E i \in Matching(result.input.s) : result.out.value = Registered[i].def
           ELSE UnknownProtocol(result.out)
    /\ (result.op = "validate_command" /\ result.input.protocol.t = "str") =>
           IF Matching(result.input.protocol.s) # {}
           THEN /\ ~UnknownProtocol(result.out)
                /\ result.out.ok =>
                       \E i \in Matching(result.input.protocol.s) :
                           result.out.value.protocol = StrV(Registered[i].name)
           ELSE UnknownProtocol(result.out)
    /\ (result.op = "validate_send_command" /\ Len(quoted_split(result.input.s, ":")) > 1) =>
           (Matching(NameOf(result.input.s)) = {} => UnknownProtocol(result.out))

\* C4: the registry holds its three facets or none of them, in every state,
\* the state an aborted initialize() leaves included.
C4_AllOrNothing ==
    DOMAIN PROTO_CACHE \in {{}, {PROTO_DEF, PROTO_SCHEMA, VALID_PROTOCOLS}}

\* the arguments of a catalog that declare a default: protocol and index
Defaulted(catalog) ==
    {pa \in (1..Len(catalog)) \X (1..2) :
        /\ pa[2] <= Len(catalog[pa[1]].def.args)
        /\ "default" \in DOMAIN catalog[pa[1]].def.args[pa[2]]}

\* the declared default of an argument run through its compiled validator
CoercedDefault(arg) == ApplyArg(generate_arg_schema(arg).value, arg.default)

\* C10: after initialize() has succeeded, the default the registry holds for
\* an argument is the declared default coerced by the argument's compiled
\* validator.
C10_StoredDefaultIsCoerced ==
    (result.op = "initialize" /\ result.out.ok) =>
        \A pa \in Defaulted(result.input) :
            LET declared == result.input[pa[1]].def.args[pa[2]]
                stored == PROTO_CACHE[PROTO_DEF][pa[1]].def.args[pa[2]]
            IN  stored.default = CoercedDefault(declared).value

\* a default of the catalog that its argument's compiled validator refuses
BadDefault(catalog) ==
    \E pa \in Defaulted(catalog) :
        LET arg == catalog[pa[1]].def.args[pa[2]]
        IN  generate_arg_schema(arg).ok /\ ~CoercedDefault(arg).ok

\* C5: when a default of the catalog does not pass the compiled validator
\* of its argument (the type coercion, then every extra constraint),
\* initialize() fails on loading the catalog and the registry stays as it was.
C5_BadDefaultFailsLoad ==
    [][(result'.op = "initialize" /\ BadDefault(result'.input)) =>
           /\ ~result'.out.ok
           /\ result'.out.msg = "Error in default value for argument"
           /\ PROTO_CACHE' = PROTO_CACHE]_vars

\* a catalog whose default passes the type and fails Range has been refused
C5_Witness ==
    /\ result.op = "initialize"
    /\ result.input = CatBadDefaultExtra
    /\ ~result.out.ok

CommandTimeCalls ==
    {"validate_send_command", "validate_command", "get_proto_def", "get_proto_signature"}

\* C6: a call of validate_send_command, validate_command, get_proto_def or
\* get_proto_signature that fails leaves the three facets of the registry as
\* they were before the call.
C6_FailedCallsLeaveRegistry ==
    [][(result'.op \in CommandTimeCalls /\ ~result'.out.ok) => PROTO_CACHE' = PROTO_CACHE]_vars

\* a structured command with too many values has been refused
C6_Witness ==
    /\ result.op = "validate_command"
    /\ ~result.out.ok
    /\ result.out.msg = "Malformatted command"
    /\ result.out.error = "Expected maximum arguments"
    /\ Imported

\* the compiled keys of a registered protocol, one for each declared argument
KeysOf(n) == Get(PROTO_CACHE[PROTO_SCHEMA], n)

\* n names a protocol the registry defines and has compiled
Known(n) == Imported /\ Has(Registered, n) /\ Has(PROTO_CACHE[PROTO_SCHEMA], n)

\* the vector expected: the coerced value for each argument given
\* and the coerced default for each argument after them
Filled(keys, values) ==
    [i \in 1..Len(keys) |->
        IF i <= Len(values) THEN ApplyArg(keys[i].val, values[i]).value
        ELSE ApplyArg(keys[i].val, keys[i].default[1]).value]

\* values are valid for the first arguments and the other arguments have a
\* default
Fillable(keys, values) ==
    /\ Len(values) >= 1
    /\ Len(values) <= Len(keys)
    /\ \A i \in 1..Len(values) : ApplyArg(keys[i].val, values[i]).ok
    /\ \A i \in (Len(values) + 1)..Len(keys) : ~keys[i].required

AsText(toks) == [i \in 1..Len(toks) |-> StrV(toks[i])]

\* C1: a text command naming a registered protocol with valid tokens for its
\* first k arguments, the other arguments having a default, gives the
\* command of the protocol name in lower case and one entry for each
\* declared argument in order: the coerced token, or the coerced default.
C1_DefaultsFillTheVector ==
    result.op = "validate_send_command" =>
        \A n \in NameInputs, toks \in TokenLists :
            (/\ result.input = StrV(Join(<<n>> \o toks, ":"))
             /\ Known(n)
             /\ Fillable(KeysOf(n), AsText(toks))) =>
                result.out = Ok([protocol |-> StrV(Lower(n)),
                                 args |-> ListV(Filled(KeysOf(n), AsText(toks)))])

ArgumentCountError(out) ==
    /\ ~out.ok
    /\ out.msg = "Malformatted command"
    /\ out.error = "Expected maximum arguments"

\* C2: more positional values than the registered protocol declares
\* arguments make validate_send_command and validate_command fail with the
\* argument-count error.
C2_TooManyValues ==
    /\ result.op = "validate_send_command" =>
           \A n \in NameInputs, toks \in TokenLists :
               (/\ result.input = StrV(Join(<<n>> \o toks, ":"))
                /\ Known(n)
                /\ Len(toks) > Len(Get(Registered, n).args)) => ArgumentCountError(result.out)
    /\ (result.op = "validate_command" /\ result.input.protocol.t = "str") =>
           ((/\ Known(result.input.protocol.s)
             /\ Len(result.input.args.items) > Len(Get(Registered, result.input.protocol.s).args)) =>
                ArgumentCountError(result.out))

\* the declared arguments that fail: a value given that the validator
\* refuses, or no value and no default
FailingArgs(keys, values) ==
    {i \in 1..Len(keys) :
        IF i <= Len(values) THEN ~ApplyArg(keys[i].val, values[i]).ok ELSE keys[i].required}

Min(S) == CHOOSE i \in S : \A j \in S : i <= j

\* the label names the earliest failing argument
LabelsEarliest(out, keys, values) ==
    (/\ ~out.ok
     /\ out.msg = "Malformatted command"
     /\ Len(values) <= Len(keys)
     /\ FailingArgs(keys, values) # {}) =>
        out.label = <<Key(keys[Min(FailingArgs(keys, values))].name)>>

\* C9: when validate_command fails on invalid or missing arguments, the
\* diagnostic is labelled with the name of the failing argument that comes
\* first in the declared order, an array argument with a bad element or with
\* values that do not alternate in sign included.
C9_LabelIsEarliestFailingArgument ==
    /\ (result.op = "validate_command" /\ result.input.protocol.t = "str") =>
           (Known(Lower(result.input.protocol.s)) =>
                LabelsEarliest(result.out, KeysOf(Lower(result.input.protocol.s)),
                               result.input.args.items))
    /\ result.op = "validate_send_command" =>
           \A n \in NameInputs, toks \in TokenLists :
               (result.input = StrV(Join(<<n>> \o toks, ":")) /\ Known(Lower(n))) =>
                   LabelsEarliest(result.out, KeysOf(Lower(n)), AsText(toks))

\* the positions of a list of tokens that hold an empty token
Empties(values) == {i \in 1..Len(values) : values[i] = StrV(<<>>)}

\* the arguments left without a key once the empty tokens are dropped
Unkeyed(keys, values) == {i \in 1..Len(keys) : i > Len(values) \/ i \in Empties(values)}

\* what a command with empty tokens comes to when an empty token produces no
\* key: the vector of the coerced tokens and of the defaults of the arguments
\* without a key, or the missing-argument error when one of them has no
\* default
EmptyTokensAreMissingKeys(out, name, keys, values) ==
    (/\ Empties(values) # {}
     /\ Len(values) <= Len(keys)
     /\ \A i \in (1..Len(values)) \ Empties(values) : ApplyArg(keys[i].val, values[i]).ok
     /\ \A i \in Unkeyed(keys, values) : ~keys[i].required => ApplyArg(keys[i].val, keys[i].default[1]).ok) =>
        IF \E i \in Unkeyed(keys, values) : keys[i].required
        THEN ~out.ok /\ out.msg = "Malformatted command" /\ out.error = "required key not provided"
        ELSE out = Ok([protocol |-> StrV(name),
                       args |-> ListV([i \in 1..Len(keys) |->
                                          IF i \in Unkeyed(keys, values)
                                          THEN ApplyArg(keys[i].val, keys[i].default[1]).value
                                          ELSE ApplyArg(keys[i].val, values[i]).value])])

\* C11: args_to_dict leaves an empty positional parameter out of the named
\* mapping: an empty token at position i gives no key to the argument
\* declared at i, which takes its default when it has one and is reported as
\* a missing required argument when it has none.
C11_EmptyParametersAreMissingKeys ==
    /\ (result.op = "validate_command" /\ result.input.protocol.t = "str") =>
           (Known(result.input.protocol.s) =>
                EmptyTokensAreMissingKeys(result.out, result.input.protocol.s,
                                          KeysOf(result.input.protocol.s), result.input.args.items))
    /\ (result.op = "validate_send_command" /\ Len(quoted_split(result.input.s, ":")) > 1) =>
           (Known(NameOf(result.input.s)) =>
                EmptyTokensAreMissingKeys(result.out, NameOf(result.input.s),
                                          KeysOf(NameOf(result.input.s)),
                                          AsText(Tail(quoted_split(result.input.s, ":")))))

(***************************************************************************)
(* initialize() run again while a call is in progress                      *)
(*                                                                         *)
(* The module takes no lock: initialize() is three assignments to the      *)
(* keys of PROTO_CACHE, and a call of validate_command or get_proto_def    *)
(* reads PROTO_CACHE at several lines.  Here pending is the line the       *)
(* running initialize() is at (NoneV when none runs) and result is the     *)
(* call in progress, with the line it is at and what it has read from      *)
(* PROTO_CACHE so far, or the last call returned.  Each step is one line   *)
(* of the source; the reads one line makes are taken together.             *)
(***************************************************************************)
\* catalogs that load and compile, so that every key always holds the
\* outcome of a whole initialize() when no other runs
ReloadCatalogs == {CatMain, CatAlt, CatUpper}

ReloadCommands ==
    {[protocol |-> StrV(n), args |-> ListV(<<v>>)] : n \in {N_beep, N_raw}, v \in NativeValues}

ReloadLookups == {StrV(N_beep), StrV(N_raw), StrV(N_zap)}

\* PROTO_CACHE after initialize() has run to its end on a catalog
Loaded(proto_yaml) ==
    LET assign(schemas) ==
            (PROTO_DEF :> schemas.protocols) @@ (PROTO_SCHEMA :> schemas.value)
            @@ (VALID_PROTOCOLS :> Names(schemas.protocols))
    IN  assign(generate_proto_schema(load_protocols(proto_yaml).value))

\* a read of PROTO_CACHE[key] added to the reads of the call in progress
Seen(seen, key) == Append(seen, [key |-> key, value |-> PROTO_CACHE[key]])

Running == "line" \in DOMAIN result

InitReload ==
    /\ \E proto_yaml \in ReloadCatalogs : PROTO_CACHE = Loaded(proto_yaml)
    /\ result = [op |-> "none"]
    /\ pending = NoneV

\* line 476: PROTO_CACHE[PROTO_DEF] = load_protocols()
InitializeLoad ==
    /\ pending = NoneV
    /\ \E proto_yaml \in ReloadCatalogs :
           LET load(loaded) ==
                   IF ~loaded.ok THEN UNCHANGED <<PROTO_CACHE, pending>>
                   ELSE /\ PROTO_CACHE' = Set(PROTO_CACHE, PROTO_DEF, loaded.value)
                        /\ pending' = [op |-> "initialize", line |-> 477]
           IN  load(load_protocols(proto_yaml))
    /\ UNCHANGED result

\* line 477: PROTO_CACHE[PROTO_SCHEMA] = generate_proto_schema(PROTO_CACHE[PROTO_DEF])
InitializeSchema ==
    /\ pending # NoneV
    /\ pending.line = 477
    /\ LET assign(schemas) ==
               IF ~schemas.ok
               THEN /\ PROTO_CACHE' = Set(PROTO_CACHE, PROTO_DEF, schemas.protocols)
                    /\ pending' = NoneV
               ELSE /\ PROTO_CACHE' = Set(Set(PROTO_CACHE, PROTO_DEF, schemas.protocols),
                                          PROTO_SCHEMA, schemas.value)
                    /\ pending' = [op |-> "initialize", line |-> 478]
       IN  assign(generate_proto_schema(PROTO_CACHE[PROTO_DEF]))
    /\ UNCHANGED result

\* line 478: PROTO_CACHE[VALID_PROTOCOLS] = list(PROTO_CACHE[PROTO_DEF])
InitializeNames ==
    /\ pending # NoneV
    /\ pending.line = 478
    /\ PROTO_CACHE' = Set(PROTO_CACHE, VALID_PROTOCOLS, Names(PROTO_CACHE[PROTO_DEF]))
    /\ pending' = NoneV
    /\ UNCHANGED result

\* lines 449-454: the command is validated, its protocol by
\* validate_protocol_name
ValidateCommandEnter ==
    /\ ~Running
    /\ \E command \in ReloadCommands :
           LET enter(name) ==
                   IF ~name.ok
                   THEN [op |-> "validate_command", input |-> command,
                         seen |-> Seen(<<>>, PROTO_DEF),
                         out |-> Prepend(<<Key(T_protocol)>>, name)]
                   ELSE IF Len(Items(command.args)) < 1
                   THEN [op |-> "validate_command", input |-> command,
                         seen |-> Seen(<<>>, PROTO_DEF),
                         out |-> Raise("Invalid", <<Key(T_args)>>, "length of value must be at least 1")]
                   ELSE [op |-> "validate_command", input |-> command,
                         seen |-> Seen(<<>>, PROTO_DEF),
                         line |-> 456, protocol |-> name.value]
           IN  result' = enter(validate_protocol_name(PROTO_CACHE, command.protocol))
    /\ UNCHANGED <<PROTO_CACHE, pending>>

\* what a call in progress becomes when it returns or raises
Returned(seen, out) == [op |-> result.op, input |-> result.input, seen |-> seen, out |-> out]

\* line 456: args = args_to_dict(command["protocol"], command["args"])
ValidateCommandArgs ==
    /\ Running
    /\ result.op = "validate_command"
    /\ result.line = 456
    /\ LET named(dict) ==
               IF dict.ok
               THEN [result EXCEPT !.line = 458, !.seen = Seen(@, PROTO_DEF)] @@ [args |-> dict.value]
               ELSE IF dict.exc # "Invalid" THEN Returned(Seen(result.seen, PROTO_DEF), dict)
               ELSE [result EXCEPT !.line = 460, !.seen = Seen(@, PROTO_DEF)] @@ [err |-> dict]
       IN  result' = named(args_to_dict(PROTO_CACHE, result.protocol, result.input.args))
    /\ UNCHANGED <<PROTO_CACHE, pending>>

\* line 458: command["args"] = PROTO_CACHE[PROTO_SCHEMA][command["protocol"]](args)
ValidateCommandSchema ==
    /\ Running
    /\ result.op = "validate_command"
    /\ result.line = 458
    /\ IF ~Has(PROTO_CACHE[PROTO_SCHEMA], result.protocol.s)
       THEN result' = Returned(Seen(result.seen, PROTO_SCHEMA), Raise("KeyError", <<>>, "proto_schema"))
       ELSE \E r \in ApplyProtoSchema(Get(PROTO_CACHE[PROTO_SCHEMA], result.protocol.s), result.args) :
                result' =
                    IF r.ok
                    THEN Returned(Seen(result.seen, PROTO_SCHEMA),
                                  Ok([protocol |-> result.protocol, args |-> r.value]))
                    ELSE IF r.exc # "Invalid" THEN Returned(Seen(result.seen, PROTO_SCHEMA), r)
                    ELSE [op |-> result.op, input |-> result.input,
                          seen |-> Seen(result.seen, PROTO_SCHEMA),
                          line |-> 460, protocol |-> result.protocol, err |-> r]
    /\ UNCHANGED <<PROTO_CACHE, pending>>

\* lines 460-472: the vol.Invalid raised is replaced by the diagnostic, which
\* holds the signature of the protocol
ValidateCommandSignature ==
    /\ Running
    /\ result.op = "validate_command"
    /\ result.line = 460
    /\ LET signed(signature) ==
               IF ~signature.ok THEN signature
               ELSE Malformatted(PROTO_CACHE, result.protocol, result.err)
       IN  result' = Returned(Seen(result.seen, PROTO_DEF),
                              signed(get_proto_signature(PROTO_CACHE, result.protocol)))
    /\ UNCHANGED <<PROTO_CACHE, pending>>

\* line 373: validate_protocol_name(proto_name)
GetProtoDefName ==
    /\ ~Running
    /\ \E proto_name \in ReloadLookups :
           LET enter(name) ==
                   IF ~name.ok
                   THEN [op |-> "get_proto_def", input |-> proto_name,
                         seen |-> Seen(<<>>, PROTO_DEF), out |-> name]
                   ELSE [op |-> "get_proto_def", input |-> proto_name,
                         seen |-> Seen(<<>>, PROTO_DEF), line |-> 375]
           IN  result' = enter(validate_protocol_name(PROTO_CACHE, proto_name))
    /\ UNCHANGED <<PROTO_CACHE, pending>>

\* line 375: return PROTO_CACHE[PROTO_DEF][proto_name]
GetProtoDefLookup ==
    /\ Running
    /\ result.op = "get_proto_def"
    /\ result.line = 375
    /\ result' = Returned(Seen(result.seen, PROTO_DEF),
                          IF Has(PROTO_CACHE[PROTO_DEF], result.input.s)
                          THEN Ok(Get(PROTO_CACHE[PROTO_DEF], result.input.s))
                          ELSE Raise("KeyError", <<>>, "proto_name"))
    /\ UNCHANGED <<PROTO_CACHE, pending>>

NextReload ==
    \/ InitializeLoad
    \/ InitializeSchema
    \/ InitializeNames
    \/ ValidateCommandEnter
    \/ ValidateCommandArgs
    \/ ValidateCommandSchema
    \/ ValidateCommandSignature
    \/ GetProtoDefName
    \/ GetProtoDefLookup

SpecReload == InitReload /\ [][NextReload]_vars

\* the reads of a call all hold what one load of a catalog put in
\* PROTO_CACHE: the definitions as load_protocols returned them or as
\* generate_proto_schema left them, and the schemas compiled from them
FromOneLoad(seen) ==
    \E proto_yaml \in ReloadCatalogs :
        LET facets(loaded, schemas) ==
                \A i \in 1..Len(seen) :
                    IF seen[i].key = PROTO_DEF
                    THEN seen[i].value \in {loaded, schemas.protocols}
                    ELSE seen[i].value = schemas.value
            load(loaded) == facets(loaded, generate_proto_schema(loaded))
        IN  load(load_protocols(proto_yaml).value)

\* C12: while initialize() runs again, a call of validate_command or of
\* get_proto_def finds the three keys in PROTO_CACHE and reads definitions
\* and compiled schemas that all come from one and the same load, never
\* some from the old load and some from the new.
C12_ReadersSeeOneLoad ==
    /\ Imported
    /\ result.op \in {"validate_command", "get_proto_def"} => FromOneLoad(result.seen)

====
